---- MODULE Spec2Model ----
(***************************************************************************)
(* A state-machine model of dashboard.py, the Streamlit sales & operations *)
(* dashboard.  The script is executed top to bottom on every interaction   *)
(* (a widget change, an upload, a refresh); one action of the model is one *)
(* such interaction followed by the whole rerun of the script.             *)
(*                                                                         *)
(* Time is counted in ticks, TicksPerDay ticks to a day.  A datetime is a  *)
(* tick count, a date (what st.date_input returns) is a day count.         *)
(* A DataFrame is a record [cols, rows]: the set of column names and the   *)
(* sequence of rows, each row a function from column name to value.        *)
(***************************************************************************)
EXTENDS Integers, Sequences, FiniteSets, TLC

\* ------------------------------------------------------------------ bounds

TicksPerDay == 2      \* resolution of the time of day
Today == 100          \* the day number of datetime.today()
MaxSeed == 1          \* seeds of the random generator are 0..MaxSeed
MaxFiles == 2         \* files held by the uploader at one time
MaxShift == 1         \* days the user moves a range end away from its default

\* ------------------------------------------------------- program constants

NumLeads == 20
CreatedDaysBack == 60
KickoffOffset == 3
ExpectedOffset == 30
ActualLow == 25
ActualHigh == 40
DealLow == 5000
DealHigh == 50000
ClosedLow == 1
ClosedHigh == 30
EmptyRangeDays == 30
SalesGoalMin == 10000
SalesGoalDefault == 300000
OpsGoalMin == 1
OpsGoalDefault == 10
EndOfScript == 166    \* the line the script reaches when nothing raises

LeadSources == <<"LinkedIn", "Website", "Referral", "Cold Call">>
Statuses == <<"New", "Contacted", "Qualified", "Proposal Sent", "Negotiation",
              "Closed-Won", "Closed-Lost">>
Owners == <<"Alice", "Bob", "Carol">>
ProjectStatuses == <<"Planning", "In Progress", "Stalled", "Completed">>
Sections == <<"Sales Pipeline", "Operations Workflow", "Operations Calendar">>
SalesCharts == <<"Pie", "Bar", "Line", "Histogram">>
OpsCharts == <<"Bar", "Pie", "Histogram">>

SalesCols == {"Lead ID", "Lead Source", "Status", "Deal Value ($)",
              "Salesperson", "Date Created", "Date Closed"}
OpsOnlyCols == {"Project Status", "Kickoff Date", "Expected Completion",
                "Actual Completion"}
TextCols == {"Lead Source", "Status", "Salesperson", "Project Status"}

\* --------------------------------------------------------- missing values

NaT == 0 - 1          \* a missing number or timestamp (None, NaN, NaT)
NaNText == "nan"      \* a missing value of a text column
NA == 0 - 1           \* the "N/A" placeholder of a metric

NullOf(col) == IF col \in TextCols THEN NaNText ELSE NaT

\* ------------------------------------------------------ sequences helpers

Range(s) == {s[i] : i \in DOMAIN s}

RECURSIVE SumSeq(_)
SumSeq(s) == IF s = <<>> THEN 0 ELSE Head(s) + SumSeq(Tail(s))

\* Series.unique(): the distinct values in order of first appearance
Unique(s) ==
  LET firsts == {i \in DOMAIN s : \A j \in 1..(i - 1) : s[j] # s[i]}
      Nth(k) == CHOOSE i \in firsts : Cardinality({j \in firsts : j < i}) = k - 1
  IN [k \in 1..Cardinality(firsts) |-> s[Nth(k)]]

\* --------------------------------------------------------------- DataFrame

EmptyFrame == [cols |-> {}, rows |-> <<>>]

IsEmpty(df) == df.cols = {} \/ df.rows = <<>>

Column(df, col) == [i \in DOMAIN df.rows |-> df.rows[i][col]]

Widen(row, cols) ==
  [c \in cols |-> IF c \in DOMAIN row THEN row[c] ELSE NullOf(c)]

RECURSIVE UnionCols(_)
UnionCols(frames) ==
  IF frames = <<>> THEN {} ELSE Head(frames).cols \cup UnionCols(Tail(frames))

RECURSIVE ConcatRows(_, _)
ConcatRows(frames, cols) ==
  IF frames = <<>> THEN <<>>
  ELSE [i \in DOMAIN Head(frames).rows |-> Widen(Head(frames).rows[i], cols)]
       \o ConcatRows(Tail(frames), cols)

Concat(frames) ==
  [cols |-> UnionCols(frames), rows |-> ConcatRows(frames, UnionCols(frames))]

\* ------------------------------------------------------------ time helpers

Days(n) == n * TicksPerDay

DateOf(ts) == ts \div TicksPerDay

ToDatetime(day) == day * TicksPerDay

NowAt(tod) == Today * TicksPerDay + tod

AddDays(ts, n) == IF ts = NaT THEN NaT ELSE ts + Days(n)

\* ------------------------------------------------------- random generator
\* numpy's generator is deterministic in its seed; the seed is not set by the
\* script, so every call of load_data() starts from an arbitrary one.

Rnd(seed, stream, i) ==
  LET x == seed * 131 + stream * 71 + i * 37 + 11
  IN ((x * x * 17 + x * 7) % 9973) \div 3

Choice(options, seed, stream, i) ==
  options[(Rnd(seed, stream, i) % Len(options)) + 1]

RandInt(low, high, seed, stream, i) ==
  low + (Rnd(seed, stream, i) % (high - low))

RandAboveHalf(seed, stream, i) == (Rnd(seed, stream, i) % 2) = 1

\* ------------------------------------------------------ uploaded workbooks

Lead(id, source, status, value, owner, created, closed) ==
  [c \in SalesCols |->
     CASE c = "Lead ID" -> id
       [] c = "Lead Source" -> source
       [] c = "Status" -> status
       [] c = "Deal Value ($)" -> value
       [] c = "Salesperson" -> owner
       [] c = "Date Created" -> created
       [] c = "Date Closed" -> closed]

Project(id, status, kickoff, expected, actual) ==
  [c \in {"Lead ID"} \cup OpsOnlyCols |->
     CASE c = "Lead ID" -> id
       [] c = "Project Status" -> status
       [] c = "Kickoff Date" -> kickoff
       [] c = "Expected Completion" -> expected
       [] c = "Actual Completion" -> actual]

Drop(row, cols) == [c \in (DOMAIN row) \ cols |-> row[c]]

Sheet(rows) == [cols |-> DOMAIN rows[1], rows |-> rows]

Late == TicksPerDay - 1

FileIds == 1..5

\* The content of each workbook the user may upload: a function from sheet
\* name to the frame ExcelFile.parse() returns for it.
WorkbookContent(f) ==
  CASE f = 1 ->
         [s \in {"Sales", "Operations"} |->
            IF s = "Sales"
            THEN Sheet(<<Lead(1, "Website", "Closed-Won", 10000, "Alice", Days(1), Days(4)),
                         Lead(2, "Referral", "New", 5000, "Bob", Days(2) + Late, NaT)>>)
            ELSE Sheet(<<Project(1, "Completed", Days(7), Days(10), Days(9)),
                         Project(2, "Stalled", Days(7), Days(10), Days(15))>>)]
    [] f = 2 ->
         [s \in {"Sales"} |->
            Sheet(<<Lead(1, "LinkedIn", "Closed-Won", 7000, "Bob", Days(3) + Late, Days(5))>>)]
    [] f = 3 ->
         [s \in {"Summary"} |-> EmptyFrame]
    [] f = 4 ->
         [s \in {"Sales", "Operations"} |->
            IF s = "Sales"
            THEN Sheet(<<Drop(Lead(7, "Website", "Closed-Won", 0, "Alice", Days(2), NaT),
                              {"Deal Value ($)", "Lead Source"})>>)
            ELSE Sheet(<<Drop(Project(7, "In Progress", Days(5), Days(10), NaT),
                              {"Lead ID", "Actual Completion"}),
                         Drop(Project(8, "Planning", Days(6), NaT, NaT),
                              {"Lead ID", "Actual Completion"})>>)]
    [] f = 5 ->
         [s \in {"Sales", "Operations"} |->
            IF s = "Sales"
            THEN Sheet(<<Drop(Lead(9, "Cold Call", "New", 0, "Bob", NaT, NaT),
                              {"Salesperson", "Date Created", "Status", "Deal Value ($)",
                               "Date Closed"})>>)
            ELSE Sheet(<<Project(9, "Completed", Days(3), Days(10), Days(10)),
                         Project(10, "In Progress", Days(4), Days(11), NaT)>>)]

Workbooks == [f \in FileIds |-> WorkbookContent(f)]

Workbook(f) == Workbooks[f]

\* --------------------------------------------------------------- load_data

\* the frames appended in the reverse of the upload order
RECURSIVE SheetFramesLastFirst(_, _)
SheetFramesLastFirst(files, sheet) ==
  IF files = <<>> THEN <<>>
  ELSE SheetFramesLastFirst(Tail(files), sheet)
       \o (IF sheet \in DOMAIN Workbook(Head(files))
           THEN <<Workbook(Head(files))[sheet]>> ELSE <<>>)

RECURSIVE SheetFrames(_, _)
SheetFrames(files, sheet) ==
  IF files = <<>> THEN <<>>
  ELSE (IF sheet \in DOMAIN Workbook(Head(files))
        THEN <<Workbook(Head(files))[sheet]>> ELSE <<>>)
       \o SheetFrames(Tail(files), sheet)

SyntheticLead(i, seed, tod) ==
  Lead(i,
       Choice(LeadSources, seed, 1, i),
       Choice(Statuses, seed, 2, i),
       RandInt(DealLow, DealHigh, seed, 3, i),
       Choice(Owners, seed, 4, i),
       NowAt(tod) - Days(CreatedDaysBack) + Days(i - 1),
       IF RandAboveHalf(seed, 5, i)
       THEN NowAt(tod) - Days(RandInt(ClosedLow, ClosedHigh, seed, 6, i))
       ELSE NaT)

SyntheticSales(seed, tod) ==
  [cols |-> SalesCols, rows |-> [i \in 1..NumLeads |-> SyntheticLead(i, seed, tod)]]

IsWon(row) == row["Status"] = "Closed-Won"

\* the kickoff counted from the creation of the lead
DeriveProjectFromCreated(lead, k, seed) ==
  LET kickoff == AddDays(lead["Date Created"], KickoffOffset)
  IN [c \in SalesCols \cup OpsOnlyCols |->
        CASE c = "Project Status" -> Choice(ProjectStatuses, seed, 7, k)
          [] c = "Kickoff Date" -> kickoff
          [] c = "Expected Completion" -> AddDays(kickoff, ExpectedOffset)
          [] c = "Actual Completion" ->
               AddDays(kickoff, RandInt(ActualLow, ActualHigh, seed, 8, k))
          [] OTHER -> lead[c]]

DeriveProject(lead, k, seed) ==
  LET kickoff == AddDays(lead["Date Closed"], KickoffOffset)
  IN [c \in SalesCols \cup OpsOnlyCols |->
        CASE c = "Project Status" -> Choice(ProjectStatuses, seed, 7, k)
          [] c = "Kickoff Date" -> kickoff
          [] c = "Expected Completion" -> AddDays(kickoff, ExpectedOffset)
          [] c = "Actual Completion" ->
               AddDays(kickoff, RandInt(ActualLow, ActualHigh, seed, 8, k))
          [] OTHER -> lead[c]]

SyntheticOps(sales, seed) ==
  LET won == SelectSeq(sales.rows, IsWon)
  IN [cols |-> SalesCols \cup OpsOnlyCols,
      rows |-> [k \in DOMAIN won |-> DeriveProject(won[k], k, seed)]]

Synthetic(seed, tod) ==
  LET sales == SyntheticSales(seed, tod)
  IN <<sales, SyntheticOps(sales, seed)>>

\* The synthetic datasets, computed once for every seed and time of day.
SyntheticTable ==
  [seed \in 0..MaxSeed |-> [tod \in 0..(TicksPerDay - 1) |-> Synthetic(seed, tod)]]

load_data(use_gs, files, seed, tod) ==
  IF use_gs THEN <<EmptyFrame, EmptyFrame>>
  ELSE IF files # <<>>
  THEN LET sales_frames == SheetFrames(files, "Sales")
           ops_frames == SheetFrames(files, "Operations")
       IN <<IF sales_frames # <<>> THEN Concat(sales_frames) ELSE EmptyFrame,
            IF ops_frames # <<>> THEN Concat(ops_frames) ELSE EmptyFrame>>
  ELSE SyntheticTable[seed][tod]

\* ------------------------------------------------------------- aggregation

\* the comparison with >= in place of >
LaterOrSame(a, b) == a # NaT /\ b # NaT /\ a >= b

Later(a, b) == a # NaT /\ b # NaT /\ a > b

NotBefore(a, b) == a # NaT /\ b # NaT /\ a >= b

NotAfter(a, b) == a # NaT /\ b # NaT /\ a <= b

Present(s) == SelectSeq(s, LAMBDA v : v # NaT)

MinOf(S) == CHOOSE m \in S : \A v \in S : m <= v

MaxOf(S) == CHOOSE m \in S : \A v \in S : m >= v

\* Series.sum(): missing values are skipped, the sum of nothing is 0
SumColumn(rows, col) == SumSeq(Present([i \in DOMAIN rows |-> rows[i][col]]))

CountTrue(flags) == Cardinality({i \in DOMAIN flags : flags[i]})

WonRows(df) == SelectSeq(df.rows, IsWon)

\* round(value / goal * 100, 2), as a count of hundredths of a percent
Progress(value, goal) ==
  LET q == value \div goal
      r0 == value % goal
      d1 == (r0 * 10) \div goal
      r1 == (r0 * 10) % goal
      d2 == (r1 * 10) \div goal
      r2 == (r1 * 10) % goal
      d3 == (r2 * 10) \div goal
      r3 == (r2 * 10) % goal
      d4 == (r3 * 10) \div goal
      r4 == (r3 * 10) % goal
      floor == q * 10000 + d1 * 1000 + d2 * 100 + d3 * 10 + d4
  IN IF 2 * r4 > goal \/ (2 * r4 = goal /\ floor % 2 = 1) THEN floor + 1 ELSE floor

\* min(progress / 100, 1.0), in the same unit
BarValue(progress) == IF progress < 10000 THEN progress ELSE 10000

\* f"{n:,.0f}": the decimal digits of n in groups of three
RECURSIVE Thousands(_)
Thousands(n) == IF n < 1000 THEN <<n>> ELSE Append(Thousands(n \div 1000), n % 1000)

GroupSum(rows, key, value) ==
  {<<k, SumColumn(SelectSeq(rows, LAMBDA r : r[key] = k), value)>> :
     k \in {rows[i][key] : i \in DOMAIN rows} \ {NaNText}}

ValueCounts(rows, key) ==
  {<<k, Cardinality({i \in DOMAIN rows : rows[i][key] = k})>> :
     k \in {rows[i][key] : i \in DOMAIN rows} \ {NaNText}}

\* ----------------------------------------------------------------- filter

filter(sd, selected, range) ==
  LET start == ToDatetime(range[1])
      end == ToDatetime(range[2])
      Keep(row) == /\ row["Salesperson"] \in selected
                   /\ NotBefore(row["Date Created"], start)
                   /\ NotAfter(row["Date Created"], end)
  IN [cols |-> sd.cols, rows |-> SelectSeq(sd.rows, Keep)]

\* ------------------------------------------------------------------ views

NoChart == [kind |-> "none", data |-> {}]

NoSalesView == [rendered |-> FALSE, total_leads |-> 0, closed_won |-> 0,
                total_deal_value |-> <<>>, progress |-> 0, chart |-> NoChart,
                table |-> EmptyFrame]

NoOpsView == [rendered |-> FALSE, active_projects |-> 0, completed |-> 0,
              sla_breaches |-> 0, progress |-> 0, chart |-> NoChart,
              table |-> EmptyFrame]

NoCalendarView == [rendered |-> FALSE, timeline |-> <<>>, warning |-> FALSE]

SalesChart(fs, kind) ==
  IF ~IsEmpty(fs) /\ "Lead Source" \in fs.cols
  THEN [kind |-> kind,
        data |-> IF kind = "Histogram"
                 THEN {<<i, fs.rows[i]["Lead Source"], fs.rows[i]["Deal Value ($)"]>> :
                         i \in DOMAIN fs.rows}
                 ELSE GroupSum(fs.rows, "Lead Source", "Deal Value ($)")]
  ELSE NoChart

SalesView(fs, total, progress, kind) ==
  [rendered |-> TRUE,
   total_leads |-> Len(fs.rows),
   closed_won |-> IF "Status" \in fs.cols THEN Len(WonRows(fs)) ELSE NA,
   total_deal_value |-> Thousands(total),
   progress |-> BarValue(progress),
   chart |-> SalesChart(fs, kind),
   table |-> fs]

SlaBreaches(od) ==
  IF "Actual Completion" \in od.cols /\ "Expected Completion" \in od.cols
  THEN CountTrue([i \in DOMAIN od.rows |->
                    Later(od.rows[i]["Actual Completion"],
                          od.rows[i]["Expected Completion"])])
  ELSE NA

OpsChart(od, kind) ==
  IF ~IsEmpty(od) /\ "Project Status" \in od.cols
  THEN [kind |-> kind,
        data |-> IF kind = "Histogram"
                 THEN {<<i, od.rows[i]["Project Status"]>> : i \in DOMAIN od.rows}
                 ELSE ValueCounts(od.rows, "Project Status")]
  ELSE NoChart

OpsView(od, progress, kind) ==
  [rendered |-> TRUE,
   active_projects |-> Len(od.rows),
   completed |-> IF "Project Status" \in od.cols
                 THEN CountTrue([i \in DOMAIN od.rows |->
                                   od.rows[i]["Project Status"] = "Completed"])
                 ELSE NA,
   sla_breaches |-> SlaBreaches(od),
   progress |-> BarValue(progress),
   chart |-> OpsChart(od, kind),
   table |-> od]

HasTimeline(od) ==
  ~IsEmpty(od) /\ {"Kickoff Date", "Expected Completion"} \subseteq od.cols

CalendarView(od) ==
  IF HasTimeline(od)
  THEN [rendered |-> TRUE,
        timeline |-> [i \in DOMAIN od.rows |->
                        [Task |-> od.rows[i]["Lead ID"],
                         Start |-> od.rows[i]["Kickoff Date"],
                         Finish |-> od.rows[i]["Expected Completion"]]],
        warning |-> FALSE]
  ELSE [rendered |-> TRUE, timeline |-> <<>>, warning |-> TRUE]

\* ------------------------------------------------------------------ state

VARIABLES
  use_google_sheets,     \* line 27: the checkbox
  uploaded_files,        \* line 23: the uploader's files, in upload order
  sales_data,            \* line 60
  ops_data,              \* line 60
  section,               \* line 63
  salespersons,          \* line 67: the options of the multiselect
  selected_salesperson,  \* line 68
  date_input_default,    \* line 71: the value handed to st.date_input
  date_range,            \* lines 71, 73
  filtered_sales,        \* line 75
  sales_goal,            \* line 83
  ops_goal,              \* line 84
  sales_total,           \* line 86
  ops_total,             \* line 87
  sales_progress,        \* line 89
  ops_progress,          \* line 90
  chart_type,            \* lines 100, 126: the selectbox of the view shown
  sales_view,            \* lines 93-116
  ops_view,              \* lines 119-141
  calendar_view,         \* lines 144-154
  pc,                    \* the line at which the last run stopped
  error                  \* the exception that stopped it, "" when none did

vars == <<use_google_sheets, uploaded_files, sales_data, ops_data, section,
          salespersons, selected_salesperson, date_input_default, date_range,
          filtered_sales, sales_goal, ops_goal, sales_total, ops_total,
          sales_progress, ops_progress, chart_type, sales_view, ops_view,
          calendar_view, pc, error>>

\* ----------------------------------------------------------------- widgets
\* A widget gives back the value the user left in it as long as it was drawn by
\* the previous run with the same arguments; otherwise it gives its default.

multiselect(prev, held, options) ==
  IF prev.pc > 68 /\ prev.salespersons = options THEN held ELSE Range(options)

date_input(prev, held, default) ==
  IF prev.date_input_default = default THEN held ELSE default

number_input(prev, held, default) ==
  IF prev.pc > 84 THEN held ELSE default

ChartOptions(sec) ==
  CASE sec = "Sales Pipeline" -> SalesCharts
    [] sec = "Operations Workflow" -> OpsCharts
    [] OTHER -> <<>>

SelectboxLine(sec) == IF sec = "Sales Pipeline" THEN 100 ELSE 126

selectbox(prev, held, sec) ==
  IF prev.section = sec /\ prev.pc > SelectboxLine(sec) /\ held \in Range(ChartOptions(sec))
  THEN held ELSE ChartOptions(sec)[1]

\* ---------------------------------------------------------- the script run

DefaultRange(sd) ==
  LET created == Range(Present(Column(sd, "Date Created")))
  IN <<DateOf(MinOf(created)), DateOf(MaxOf(created))>>

\* the sum taken over every status
SalesTotalAnyStatus(fs) ==
  IF ~IsEmpty(fs) /\ "Status" \in fs.cols
  THEN SumColumn(fs.rows, "Deal Value ($)")
  ELSE 0

SalesTotal(fs) ==
  IF ~IsEmpty(fs) /\ "Status" \in fs.cols
  THEN SumColumn(WonRows(fs), "Deal Value ($)")
  ELSE 0

\* The line at which the run raises before the filter, EndOfScript when it
\* gets past line 71.
EarlyStop(sd) ==
  IF ~IsEmpty(sd) /\ "Salesperson" \notin sd.cols THEN 67
  ELSE IF ~IsEmpty(sd) /\ "Date Created" \notin sd.cols THEN 71
  ELSE EndOfScript

\* Lines 67-73: the filter widgets and what they give back.
Widgets(prev, held, sd, tod) ==
  LET opts == IF ~IsEmpty(sd) THEN Unique(Column(sd, "Salesperson")) ELSE <<>>
      dflt == IF ~IsEmpty(sd) THEN DefaultRange(sd) ELSE <<>>
  IN [salespersons |-> IF EarlyStop(sd) > 67 THEN opts ELSE <<>>,
      selected_salesperson |->
        IF EarlyStop(sd) > 67
        THEN multiselect(prev, held.selected_salesperson, opts) ELSE {},
      date_input_default |-> IF EarlyStop(sd) > 71 THEN dflt ELSE <<>>,
      date_range |->
        IF EarlyStop(sd) <= 71 THEN <<>>
        ELSE IF ~IsEmpty(sd) THEN date_input(prev, held.date_range, dflt)
        ELSE <<NowAt(tod) - Days(EmptyRangeDays), NowAt(tod)>>]

\* Lines 75-79, when the run gets that far and date_range has both dates.
Filtered(sd, w) ==
  IF ~IsEmpty(sd) /\ EarlyStop(sd) = EndOfScript /\ Len(w.date_range) >= 2
  THEN filter(sd, w.selected_salesperson, w.date_range)
  ELSE EmptyFrame

\* The line at which the run raises, EndOfScript when it does not.
StopLine(sd, od, sec, w, fs) ==
  IF EarlyStop(sd) # EndOfScript THEN EarlyStop(sd)
  ELSE IF ~IsEmpty(sd) /\ Len(w.date_range) < 2 THEN 78
  ELSE IF ~IsEmpty(fs) /\ "Status" \in fs.cols /\ "Deal Value ($)" \notin fs.cols
  THEN 86
  ELSE IF /\ sec = "Sales Pipeline"
          /\ ~IsEmpty(fs) /\ "Lead Source" \in fs.cols
          /\ "Deal Value ($)" \notin fs.cols
  THEN 102
  ELSE IF sec = "Operations Calendar" /\ HasTimeline(od) /\ "Lead ID" \notin od.cols
  THEN 146
  ELSE EndOfScript

ErrorAt(line) ==
  CASE line = EndOfScript -> ""
    [] line = 78 -> "IndexError"
    [] OTHER -> "KeyError"

\* The state a run leaves: sd, od are what load_data() returned, w the filter
\* widgets, fs the filtered leads, stop the line at which the run ended.  What
\* the run did not reach keeps the value of a name never assigned.
Outcome(prev, sec, held, sd, od, w, fs, stop) ==
  LET sg == number_input(prev, held.sales_goal, SalesGoalDefault)
      og == number_input(prev, held.ops_goal, OpsGoalDefault)
      st == SalesTotal(fs)
      ot == IF ~IsEmpty(od) THEN Len(od.rows) ELSE 0
      sp == IF sg > 0 THEN Progress(st, sg) ELSE 0
      op == IF og > 0 THEN Progress(ot, og) ELSE 0
      ct == IF sec = "Operations Calendar" THEN "none"
            ELSE selectbox(prev, held.chart_type, sec)
  IN [sales_data |-> sd,
      ops_data |-> od,
      section |-> sec,
      salespersons |-> w.salespersons,
      selected_salesperson |-> w.selected_salesperson,
      date_input_default |-> w.date_input_default,
      date_range |-> w.date_range,
      filtered_sales |-> IF stop > 78 THEN fs ELSE EmptyFrame,
      sales_goal |-> IF stop > 78 THEN sg ELSE SalesGoalDefault,
      ops_goal |-> IF stop > 78 THEN og ELSE OpsGoalDefault,
      sales_total |-> IF stop > 86 THEN st ELSE 0,
      ops_total |-> IF stop > 86 THEN ot ELSE 0,
      sales_progress |-> IF stop > 86 THEN sp ELSE 0,
      ops_progress |-> IF stop > 86 THEN op ELSE 0,
      chart_type |-> IF stop > SelectboxLine(sec) THEN ct ELSE "none",
      sales_view |-> IF stop = EndOfScript /\ sec = "Sales Pipeline"
                     THEN SalesView(fs, st, sp, ct)
                     ELSE IF stop = 102
                     THEN [SalesView(fs, st, sp, ct) EXCEPT
                             !.chart = NoChart, !.table = EmptyFrame]
                     ELSE NoSalesView,
      ops_view |-> IF stop = EndOfScript /\ sec = "Operations Workflow"
                   THEN OpsView(od, op, ct) ELSE NoOpsView,
      calendar_view |-> IF stop = EndOfScript /\ sec = "Operations Calendar"
                        THEN CalendarView(od) ELSE NoCalendarView,
      pc |-> stop,
      error |-> ErrorAt(stop)]

\* Lines 61-166 on the data load_data() returned: each stage of the run is
\* computed once and handed to the next.
RunOn(prev, sec, held, sd, od, tod) ==
  UNION {UNION {{Outcome(prev, sec, held, sd, od, w, fs, stop) :
                   stop \in {StopLine(sd, od, sec, w, fs)}} :
                fs \in {Filtered(sd, w)}} :
         w \in {Widgets(prev, held, sd, tod)}}

Seeds(use_gs, files) == IF ~use_gs /\ files = <<>> THEN 0..MaxSeed ELSE {0}

TimesOfDay == 0..(TicksPerDay - 1)

\* Line 60: what load_data() may return, with the time of day of the run.
Loads(use_gs, files) ==
  {[data |-> load_data(use_gs, files, seed, tod), tod |-> tod] :
     seed \in Seeds(use_gs, files), tod \in TimesOfDay}

\* The states one run of the script from line 1 may leave.  prev is the state
\* the previous run left (what the widgets remember), held the values the user
\* left in the widgets.
Script(prev, use_gs, files, sec, held) ==
  UNION {RunOn(prev, sec, held, l.data[1], l.data[2], l.tod) : l \in Loads(use_gs, files)}

Fresh == [pc |-> 0, salespersons |-> <<>>, date_input_default |-> <<>>, section |-> ""]

Previous == [pc |-> pc, salespersons |-> salespersons,
             date_input_default |-> date_input_default, section |-> section]

Held == [selected_salesperson |-> selected_salesperson, date_range |-> date_range,
         sales_goal |-> sales_goal, ops_goal |-> ops_goal, chart_type |-> chart_type]

Assign(r) ==
  /\ sales_data' = r.sales_data
  /\ ops_data' = r.ops_data
  /\ section' = r.section
  /\ salespersons' = r.salespersons
  /\ selected_salesperson' = r.selected_salesperson
  /\ date_input_default' = r.date_input_default
  /\ date_range' = r.date_range
  /\ filtered_sales' = r.filtered_sales
  /\ sales_goal' = r.sales_goal
  /\ ops_goal' = r.ops_goal
  /\ sales_total' = r.sales_total
  /\ ops_total' = r.ops_total
  /\ sales_progress' = r.sales_progress
  /\ ops_progress' = r.ops_progress
  /\ chart_type' = r.chart_type
  /\ sales_view' = r.sales_view
  /\ ops_view' = r.ops_view
  /\ calendar_view' = r.calendar_view
  /\ pc' = r.pc
  /\ error' = r.error

\* The rerun every interaction ends with: the script from line 1 to its end.
Rerun(use_gs, files, sec, held) ==
  /\ use_google_sheets' = use_gs
  /\ uploaded_files' = files
  /\ \E r \in Script(Previous, use_gs, files, sec, held) : Assign(r)

Init ==
  /\ use_google_sheets = FALSE
  /\ uploaded_files = <<>>
  /\ \E r \in Script(Fresh, FALSE, <<>>, Sections[1],
                     [selected_salesperson |-> {}, date_range |-> <<>>,
                      sales_goal |-> SalesGoalDefault, ops_goal |-> OpsGoalDefault,
                      chart_type |-> "none"]) :
       /\ sales_data = r.sales_data
       /\ ops_data = r.ops_data
       /\ section = r.section
       /\ salespersons = r.salespersons
       /\ selected_salesperson = r.selected_salesperson
       /\ date_input_default = r.date_input_default
       /\ date_range = r.date_range
       /\ filtered_sales = r.filtered_sales
       /\ sales_goal = r.sales_goal
       /\ ops_goal = r.ops_goal
       /\ sales_total = r.sales_total
       /\ ops_total = r.ops_total
       /\ sales_progress = r.sales_progress
       /\ ops_progress = r.ops_progress
       /\ chart_type = r.chart_type
       /\ sales_view = r.sales_view
       /\ ops_view = r.ops_view
       /\ calendar_view = r.calendar_view
       /\ pc = r.pc
       /\ error = r.error

\* ------------------------------------------------------------ interactions

ToggleGoogleSheets ==
  Rerun(~use_google_sheets, uploaded_files, section, Held)

Files(fs) == {fs[i] : i \in DOMAIN fs}

UploadFile ==
  /\ Len(uploaded_files) < MaxFiles
  /\ \E f \in FileIds \ Files(uploaded_files) :
       Rerun(use_google_sheets, Append(uploaded_files, f), section, Held)

RemoveFile ==
  \E i \in DOMAIN uploaded_files :
    Rerun(use_google_sheets,
          SubSeq(uploaded_files, 1, i - 1)
            \o SubSeq(uploaded_files, i + 1, Len(uploaded_files)),
          section, Held)

SelectSection ==
  \E sec \in Range(Sections) \ {section} :
    Rerun(use_google_sheets, uploaded_files, sec, Held)

\* One click in the multiselect adds or removes one owner.
SelectSalesperson ==
  /\ pc > 68
  /\ \E owner \in Range(salespersons) :
       Rerun(use_google_sheets, uploaded_files, section,
             [Held EXCEPT !.selected_salesperson =
                IF owner \in selected_salesperson
                THEN selected_salesperson \ {owner}
                ELSE selected_salesperson \cup {owner}])

\* The first click in the calendar of the date-range control: the control holds
\* one date until the second click.  The user picks a date at most MaxShift
\* days after the default start.
PickRangeStart ==
  /\ date_input_default # <<>>
  /\ \E a \in date_input_default[1]..(date_input_default[1] + MaxShift) :
       /\ a <= date_input_default[2]
       /\ Rerun(use_google_sheets, uploaded_files, section,
                [Held EXCEPT !.date_range = <<a>>])

\* The second click: a date at most MaxShift days before the default end.
PickRangeEnd ==
  /\ date_input_default # <<>>
  /\ Len(date_range) = 1
  /\ \E b \in (date_input_default[2] - MaxShift)..date_input_default[2] :
       /\ date_range[1] <= b
       /\ Rerun(use_google_sheets, uploaded_files, section,
                [Held EXCEPT !.date_range = <<date_range[1], b>>])

SetSalesGoal ==
  /\ pc > 84
  /\ \E goal \in {SalesGoalMin, SalesGoalDefault} \ {sales_goal} :
       Rerun(use_google_sheets, uploaded_files, section,
             [Held EXCEPT !.sales_goal = goal])

SetOpsGoal ==
  /\ pc > 84
  /\ \E goal \in {OpsGoalMin, OpsGoalDefault} \ {ops_goal} :
       Rerun(use_google_sheets, uploaded_files, section,
             [Held EXCEPT !.ops_goal = goal])

SelectChartType ==
  /\ chart_type # "none"
  /\ \E kind \in Range(ChartOptions(section)) \ {chart_type} :
       Rerun(use_google_sheets, uploaded_files, section,
             [Held EXCEPT !.chart_type = kind])

Next ==
  \/ ToggleGoogleSheets
  \/ UploadFile
  \/ RemoveFile
  \/ SelectSection
  \/ SelectSalesperson
  \/ PickRangeStart
  \/ PickRangeEnd
  \/ SetSalesGoal
  \/ SetOpsGoal
  \/ SelectChartType

Spec == Init /\ [][Next]_vars

\* The interactions that change what load_data() reads or which view is shown.
SourceNext ==
  \/ ToggleGoogleSheets
  \/ UploadFile
  \/ RemoveFile
  \/ SelectSection

SourceSpec == Init /\ [][SourceNext]_vars

\* The interactions that change the data or the filter criteria.
FilterNext ==
  \/ ToggleGoogleSheets
  \/ UploadFile
  \/ RemoveFile
  \/ SelectSalesperson
  \/ PickRangeStart
  \/ PickRangeEnd

FilterSpec == Init /\ [][FilterNext]_vars

\* ------------------------------------------------------------- properties

OnSyntheticPath == ~use_google_sheets /\ uploaded_files = <<>>

OnUploadPath == ~use_google_sheets /\ uploaded_files # <<>>

SheetRows(f, sheet) ==
  IF sheet \in DOMAIN Workbook(f) THEN Workbook(f)[sheet].rows ELSE <<>>

RECURSIVE RowsBefore(_, _, _)
RowsBefore(files, k, sheet) ==
  IF k = 1 THEN 0
  ELSE RowsBefore(files, k - 1, sheet) + Len(SheetRows(files[k - 1], sheet))

\* df holds the rows of the sheet of every file, in upload order
HoldsSheets(df, files, sheet) ==
  /\ Len(df.rows) = RowsBefore(files, Len(files) + 1, sheet)
  /\ \A k \in DOMAIN files :
       \A j \in DOMAIN SheetRows(files[k], sheet) :
         \A c \in DOMAIN SheetRows(files[k], sheet)[j] :
           df.rows[RowsBefore(files, k, sheet) + j][c] = SheetRows(files[k], sheet)[j][c]
  /\ (\A k \in DOMAIN files : sheet \notin DOMAIN Workbook(files[k])) => df = EmptyFrame

WonIds(df) ==
  LET won == SelectSeq(df.rows, LAMBDA r : r["Status"] = "Closed-Won")
  IN [k \in DOMAIN won |-> won[k]["Lead ID"]]

\* C2: load_data() returns two empty collections when the Google Sheets toggle
\* is on, even with files uploaded; otherwise, with files uploaded, the rows of
\* the files' 'Sales' sheets (and of their 'Operations' sheets) concatenated in
\* upload order, a file without the sheet contributing nothing; otherwise 20
\* synthetic leads and the projects derived from them.
C2_LoadBySource ==
  /\ use_google_sheets => sales_data = EmptyFrame /\ ops_data = EmptyFrame
  /\ OnUploadPath =>
       /\ HoldsSheets(sales_data, uploaded_files, "Sales")
       /\ HoldsSheets(ops_data, uploaded_files, "Operations")
  /\ OnSyntheticPath =>
       /\ Len(sales_data.rows) = NumLeads
       /\ Len(ops_data.rows) <= NumLeads
       /\ [k \in DOMAIN ops_data.rows |-> ops_data.rows[k]["Lead ID"]] = WonIds(sales_data)

C2_Witness ==
  /\ OnUploadPath
  /\ Len(uploaded_files) = 2
  /\ "Sales" \in DOMAIN Workbook(uploaded_files[1])
  /\ "Sales" \in DOMAIN Workbook(uploaded_files[2])
  /\ "Operations" \notin DOMAIN Workbook(uploaded_files[2])
  /\ Len(sales_data.rows) > Len(SheetRows(uploaded_files[1], "Sales"))

\* C8: on the synthetic path there is exactly one project per Closed-Won lead,
\* with that lead's identifier, and none for another lead; its kickoff is the
\* close timestamp + 3 days, its expected completion the kickoff + 30 days, its
\* actual completion the kickoff + d days with 25 <= d <= 39; all three are
\* missing when the close timestamp is missing.
C8_SyntheticProjects ==
  OnSyntheticPath =>
    /\ \A i \in DOMAIN sales_data.rows :
         Cardinality({k \in DOMAIN ops_data.rows :
                        ops_data.rows[k]["Lead ID"] = sales_data.rows[i]["Lead ID"]})
           = IF sales_data.rows[i]["Status"] = "Closed-Won" THEN 1 ELSE 0
    /\ \A k \in DOMAIN ops_data.rows :
         \E i \in DOMAIN sales_data.rows :
           LET lead == sales_data.rows[i]
               project == ops_data.rows[k]
               close == lead["Date Closed"]
               kickoff == project["Kickoff Date"]
           IN /\ project["Lead ID"] = lead["Lead ID"]
              /\ IF close = NaT
                 THEN /\ kickoff = NaT
                      /\ project["Expected Completion"] = NaT
                      /\ project["Actual Completion"] = NaT
                 ELSE /\ kickoff = close + 3 * TicksPerDay
                      /\ project["Expected Completion"] = kickoff + 30 * TicksPerDay
                      /\ \E d \in 25..39 :
                           project["Actual Completion"] = kickoff + d * TicksPerDay

C8_Witness ==
  /\ OnSyntheticPath
  /\ \E k \in DOMAIN ops_data.rows : ops_data.rows[k]["Kickoff Date"] # NaT
  /\ \E k \in DOMAIN ops_data.rows : ops_data.rows[k]["Kickoff Date"] = NaT
  /\ Len(ops_data.rows) < Len(sales_data.rows)

\* C5: in a non-empty Lead collection returned by load_data() no two leads have
\* the same Lead ID (every uploaded 'Sales' sheet has identifiers unique within
\* its file).
C5_UniqueLeadIds ==
  (~IsEmpty(sales_data) /\ "Lead ID" \in sales_data.cols) =>
    \A i, j \in DOMAIN sales_data.rows :
      sales_data.rows[i]["Lead ID"] = sales_data.rows[j]["Lead ID"] => i = j

C5_Witness ==
  /\ OnUploadPath
  /\ Len(uploaded_files) = 2
  /\ Len(sales_data.rows) > 1

\* the rows of sales_data whose owner is selected and whose creation timestamp
\* lies between the first moment of the start date and the last of the end date
InCriteria(row) ==
  /\ row["Salesperson"] \in selected_salesperson
  /\ row["Date Created"] # NaT
  /\ ToDatetime(date_range[1]) <= row["Date Created"]
  /\ row["Date Created"] < ToDatetime(date_range[2] + 1)

\* C1: the filtered collection holds a lead if and only if its owner is selected
\* and its creation timestamp lies in [start, end], both inclusive: a lead
\* created at any moment of the selected end date is kept.
C1_FilterInclusive ==
  (~IsEmpty(sales_data) /\ pc > 78) =>
    filtered_sales.rows = SelectSeq(sales_data.rows, InCriteria)

\* C9: with every owner selected and the date range left at its default, the
\* filtered collection is the loaded Lead collection and Total Leads its size.
C9_DefaultFilterIsIdentity ==
  (/\ ~IsEmpty(sales_data)
   /\ pc > 78
   /\ selected_salesperson = Range(salespersons)
   /\ date_range = date_input_default) =>
    /\ filtered_sales = sales_data
    /\ sales_view.rendered => sales_view.total_leads = Len(sales_data.rows)

\* C3: a rerun that is not a new load (the data source is the same) sees the
\* Lead and Project collections of the previous run.
C3_DataImmutable ==
  [][(use_google_sheets' = use_google_sheets /\ uploaded_files' = uploaded_files)
       => (sales_data' = sales_data /\ ops_data' = ops_data)]_vars

\* C4: every run of the script reaches its end, no exception is raised.
C4_NoRenderIsFatal == pc = EndOfScript /\ error = ""

\* C10: for a fixed dataset and view, a change of the selected owners or of the
\* date range changes none of the Operations outputs.
C10_FilterLeavesOperations ==
  [][(/\ sales_data' = sales_data
      /\ ops_data' = ops_data
      /\ section' = section
      /\ (selected_salesperson' # selected_salesperson \/ date_range' # date_range))
       => (/\ ops_total' = ops_total
           /\ ops_progress' = ops_progress
           /\ ops_view' = ops_view
           /\ calendar_view' = calendar_view)]_vars

RECURSIVE WonValue(_)
WonValue(rows) ==
  IF rows = <<>> THEN 0
  ELSE WonValue(Tail(rows))
         + (IF Head(rows)["Status"] = "Closed-Won" /\ Head(rows)["Deal Value ($)"] # NaT
            THEN Head(rows)["Deal Value ($)"] ELSE 0)

RECURSIVE Ungrouped(_)
Ungrouped(groups) ==
  IF Len(groups) = 1 THEN groups[1]
  ELSE 1000 * Ungrouped(SubSeq(groups, 1, Len(groups) - 1)) + groups[Len(groups)]

\* C6: sales_total, the value shown as Total Deal Value, is the sum of Deal
\* Value over the leads of the filtered collection whose status is Closed-Won,
\* and 0 when that collection is empty or has no Closed-Won lead.
C6_TotalClosedValue ==
  pc > 86 =>
    /\ sales_total = IF "Status" \in filtered_sales.cols
                     THEN WonValue(filtered_sales.rows) ELSE 0
    /\ (\A i \in DOMAIN filtered_sales.rows :
          "Status" \in filtered_sales.cols =>
            filtered_sales.rows[i]["Status"] # "Closed-Won") => sales_total = 0
    /\ sales_view.rendered =>
         /\ \A g \in DOMAIN sales_view.total_deal_value :
              sales_view.total_deal_value[g] \in 0..999
         /\ Ungrouped(sales_view.total_deal_value) = sales_total

C6_Witness ==
  /\ pc > 86
  /\ sales_view.rendered
  /\ sales_total > 999
  /\ Len(filtered_sales.rows) < Len(sales_data.rows)
  /\ \E i \in DOMAIN filtered_sales.rows : filtered_sales.rows[i]["Status"] # "Closed-Won"
  /\ \E i \in DOMAIN sales_data.rows :
       /\ sales_data.rows[i]["Status"] = "Closed-Won"
       /\ sales_data.rows[i]["Salesperson"] \notin selected_salesperson

Breaches(df) ==
  Cardinality({i \in DOMAIN df.rows :
                 /\ "Actual Completion" \in DOMAIN df.rows[i]
                 /\ "Expected Completion" \in DOMAIN df.rows[i]
                 /\ df.rows[i]["Actual Completion"] # NaT
                 /\ df.rows[i]["Expected Completion"] # NaT
                 /\ df.rows[i]["Actual Completion"] > df.rows[i]["Expected Completion"]})

\* C7 as stated: the SLA Breaches metric is the number of projects whose actual
\* completion is strictly later than their expected completion, a project
\* without one of the two dates never counted.
C7_SlaBreachCount ==
  ops_view.rendered => ops_view.sla_breaches = Breaches(ops_data)

\* C7 as amended: the metric is that number when the Project collection has
\* both the 'Actual Completion' and the 'Expected Completion' column, and the
\* placeholder "N/A" when it lacks one of them.
C7_SlaBreachCountOrPlaceholder ==
  ops_view.rendered =>
    ops_view.sla_breaches =
      IF {"Actual Completion", "Expected Completion"} \subseteq ops_data.cols
      THEN Breaches(ops_data) ELSE NA

C7_Witness ==
  /\ ops_view.rendered
  /\ ops_view.sla_breaches > 0
  /\ \E i \in DOMAIN ops_data.rows :
       /\ ops_data.rows[i]["Actual Completion"] # NaT
       /\ ops_data.rows[i]["Actual Completion"] = ops_data.rows[i]["Expected Completion"]
  /\ \E i \in DOMAIN ops_data.rows : ops_data.rows[i]["Actual Completion"] = NaT

====
